---- MODULE Spec2Model ----
(***************************************************************************)
(* Model of src/src/message.rs: the LuaMessage value type, its From        *)
(* constructors, the FromLua / ToLua codec between LuaMessage and the      *)
(* runtime's Value, and MessageResponse::handle.                           *)
(*                                                                         *)
(* Texts are sequences of one-character strings, so the sentinel regex is  *)
(* evaluated character by character.  An i64 is its eight two's-complement *)
(* bytes, least significant first, so integer casts keep their width.      *)
(***************************************************************************)
EXTENDS Integers, Sequences, FiniteSets, TLC

VARIABLES pc, op, arg, msg, native, orig, failure, tx, chan

vars == <<pc, op, arg, msg, native, orig, failure, tx, chan>>

(***************************************************************************)
(* Bounds of the model.                                                    *)
(***************************************************************************)
\* longest text, counted in fragments of Fragments
MaxFrags == 3
\* deepest nesting of tables inside tables
MaxDepth == 2

(***************************************************************************)
(* Texts.                                                                  *)
(***************************************************************************)
\* the literal the regex of from_lua starts with: __suspended__
Sentinel == <<"_", "_", "s", "u", "s", "p", "e", "n", "d", "e", "d", "_", "_">>

\* __suspended, the sentinel cut short
Partial == SubSeq(Sentinel, 1, Len(Sentinel) - 2)

Fragments == {Sentinel, Partial, <<"X">>, <<"\n">>}

RECURSIVE TextsUpTo(_)
TextsUpTo(k) ==
    IF k = 0 THEN {<<>>}
    ELSE LET shorter == TextsUpTo(k - 1)
         IN  shorter \cup {t \o f : t \in shorter, f \in Fragments}

Texts == TextsUpTo(MaxFrags)

\* texts used as table entries and as keys
abc == <<"a", "b", "c">>
SuspendedAbc == Sentinel \o abc
Bar == <<"b", "a", "r">>

(***************************************************************************)
(* The regex r"__suspended__(.+)" and Regex::captures.                     *)
(***************************************************************************)
\* `.` matches every character but the line feed
Dot(c) == c # "\n"

\* the literal matches at position i and (.+) has one character to take
MatchesAt(s, i) ==
    /\ i + Len(Sentinel) <= Len(s)
    /\ SubSeq(s, i, i + Len(Sentinel) - 1) = Sentinel
    /\ Dot(s[i + Len(Sentinel)])

is_match(s) == \E i \in 1..Len(s) : MatchesAt(s, i)

\* capture group 1 of the leftmost match: (.+) is greedy and stops at a line feed
group1(s) ==
    LET i    == CHOOSE j \in 1..Len(s) : MatchesAt(s, j) /\ \A h \in 1..(j - 1) : ~MatchesAt(s, h)
        from == i + Len(Sentinel)
        to   == CHOOSE e \in from..Len(s) :
                    /\ \A h \in from..e : Dot(s[h])
                    /\ e = Len(s) \/ ~Dot(s[e + 1])
    IN  SubSeq(s, from, to)


(***************************************************************************)
(* 64-bit integers as bytes.                                               *)
(***************************************************************************)
\* values a byte takes
Byte == 2 ^ 8

Pad(bytes, fill) == [i \in 1..8 |-> IF i <= Len(bytes) THEN bytes[i] ELSE fill]

Zero64 == Pad(<<>>, 0)

\* two's complement negation within the width of bytes
Negate(bytes) ==
    [i \in 1..Len(bytes) |->
        IF \A j \in 1..(i - 1) : bytes[j] = 0
        THEN (Byte - bytes[i]) % Byte
        ELSE Byte - 1 - bytes[i]]

TopBit(bytes) == bytes[Len(bytes)] >= Byte \div 2

\* the number an i64 stands for, as sign and magnitude
SignedValue(bytes) ==
    [neg |-> TopBit(bytes), mag |-> IF TopBit(bytes) THEN Negate(bytes) ELSE bytes]

MacroIntTypes == {"i8", "u8", "i16", "u16", "i32", "u32", "i64"}

Signed(ty) == ty \in {"i8", "i16", "i32", "i64", "isize"}

\* bytes of each integer type; usize and isize are those of a 64-bit target
Width(ty) ==
    CASE ty \in {"i8", "u8"} -> 1
      [] ty \in {"i16", "u16"} -> 2
      [] ty \in {"i32", "u32"} -> 4
      [] OTHER -> 8

Ones(w) == [i \in 1..w |-> Byte - 1]

Num(neg, low) == [neg |-> neg, mag |-> Pad(low, 0)]

\* inputs of a type: zero, 42, -42, -1, and both ends of both halves of its range
IntInputs(ty) ==
    LET w      == Width(ty)
        half   == [i \in 1..w |-> IF i = w THEN Byte \div 2 ELSE 0]
        belowH == [i \in 1..w |-> IF i = w THEN Byte \div 2 - 1 ELSE Byte - 1]
    IN  {Num(FALSE, <<>>), Num(FALSE, <<42>>), Num(FALSE, belowH)}
          \cup (IF Signed(ty)
                THEN {Num(TRUE, <<42>>), Num(TRUE, <<1>>), Num(TRUE, half)}
                ELSE {Num(FALSE, half), Num(FALSE, Ones(w))})

\* the bytes a value of type ty occupies in memory
Repr(ty, n) ==
    LET low == SubSeq(n.mag, 1, Width(ty))
    IN  IF n.neg THEN Negate(low) ELSE low

\* i64::from(s) that forgets the sign
i64_from_ZeroExtend(ty, bytes) == Pad(bytes, 0)

\* i64::from(s): sign extension of a signed type, zero extension of an unsigned
i64_from(ty, bytes) ==
    Pad(bytes, IF Signed(ty) /\ TopBit(bytes) THEN Byte - 1 ELSE 0)

\* `s as i64` for usize: the same 64 bits, read as signed
usize_as_i64(bytes) == Pad(bytes, 0)

\* `s as i64` for isize: sign extension
isize_as_i64(bytes) == Pad(bytes, IF TopBit(bytes) THEN Byte - 1 ELSE 0)

(***************************************************************************)
(* Floats, named by the value they hold.  f32 values are also f64 values.  *)
(***************************************************************************)
F32s == {"42.5", "-0.0", "NaN"}

F64s == F32s \cup {"0.1"}

\* f64::from(s): every f32 value is an f64 value, NaN stays NaN
f64_from(ty, x) == IF ty = "f32" THEN CHOOSE y \in F64s : y = x ELSE x

(***************************************************************************)
(* LuaMessage and rlua::Value.  Every value is a record of the same shape; *)
(* tag names the variant and only the field of that variant is used.       *)
(***************************************************************************)
NoEntries == [k \in {} |-> 0]

Val(tag) == [tag |-> tag, s |-> <<>>, n |-> Zero64, x |-> "0.0", b |-> FALSE, t |-> NoEntries]

None == Val("None")

\* enum LuaMessage
String(s)      == [Val("String") EXCEPT !.s = s]
Integer(n)     == [Val("Integer") EXCEPT !.n = n]
Number(x)      == [Val("Number") EXCEPT !.x = x]
Boolean(b)     == [Val("Boolean") EXCEPT !.b = b]
Nil            == Val("Nil")
Table(t)       == [Val("Table") EXCEPT !.t = t]
ThreadYield(s) == [Val("ThreadYield") EXCEPT !.s = s]

\* rlua::Value; Function stands for the kinds from_lua has no arm for
Error(s)  == [Val("Error") EXCEPT !.s = s]
Function  == Val("Function")

RECURSIVE Depth(_)
Depth(v) ==
    IF v.tag # "Table" THEN 0
    ELSE IF DOMAIN v.t = {} THEN 1
    ELSE 1 + (CHOOSE d \in {Depth(v.t[k]) : k \in DOMAIN v.t} :
                  \A k \in DOMAIN v.t : Depth(v.t[k]) <= d)

(***************************************************************************)
(* ToLua for LuaMessage.                                                   *)
(***************************************************************************)
Ok(v) == [kind |-> "Ok", val |-> v, what |-> "<none>"]

\* a panic; val is the value the panic message is formatted from
Panic(what, v) == [kind |-> "Panic", val |-> v, what |-> what]

RECURSIVE to_lua(_), create_table_from(_)

\* Context::create_string: the bytes of the text, copied
create_string(x) == [i \in 1..Len(x) |-> x[i]]

\* create_table_from that leaves out the entries it cannot encode
create_table_from_Skip(x) ==
    LET enc  == [k \in DOMAIN x |-> to_lua(x[k])]
        kept == {k \in DOMAIN x : enc[k].kind = "Ok" /\ enc[k].val.tag # "Nil"}
    IN  Ok(Table([k \in kept |-> enc[k].val]))

\* Context::create_table_from: each value goes through to_lua and is then
\* stored with a raw set, which stores nothing under a key whose value is nil
create_table_from(x) ==
    LET enc  == [k \in DOMAIN x |-> to_lua(x[k])]
        bad  == {k \in DOMAIN x : enc[k].kind # "Ok"}
        kept == {k \in DOMAIN x : enc[k].val.tag # "Nil"}
    IN  IF bad # {}
        THEN enc[CHOOSE k \in bad : TRUE]
        ELSE Ok(Table([k \in kept |-> enc[k].val]))

\* to_lua with the integer coercion of booleans
to_lua_BooleanAsInteger(self) ==
    CASE self.tag = "String"  -> Ok(String(create_string(self.s)))
      [] self.tag = "Integer" -> Ok(Integer(self.n))
      [] self.tag = "Number"  -> Ok(Number(self.x))
      [] self.tag = "Boolean" -> Ok(Integer(Pad(<<IF self.b THEN 1 ELSE 0>>, 0)))
      [] self.tag = "Nil"     -> Ok(Nil)
      [] self.tag = "Table"   -> create_table_from(self.t)
      [] OTHER                -> Panic("not implemented", None)

\* to_lua that writes a ThreadYield back as its sentinel string
to_lua_Stringify(self) ==
    CASE self.tag = "String"  -> Ok(String(create_string(self.s)))
      [] self.tag = "Integer" -> Ok(Integer(self.n))
      [] self.tag = "Number"  -> Ok(Number(self.x))
      [] self.tag = "Boolean" -> Ok(Boolean(self.b))
      [] self.tag = "Nil"     -> Ok(Nil)
      [] self.tag = "Table"   -> create_table_from(self.t)
      [] OTHER                -> Ok(String(Sentinel \o self.s))

to_lua(self) ==
    CASE self.tag = "String"  -> Ok(String(create_string(self.s)))
      [] self.tag = "Integer" -> Ok(Integer(self.n))
      [] self.tag = "Number"  -> Ok(Number(self.x))
      [] self.tag = "Boolean" -> Ok(Boolean(self.b))
      [] self.tag = "Nil"     -> Ok(Nil)
      [] self.tag = "Table"   -> create_table_from(self.t)
      [] OTHER                -> Panic("not implemented", None)

(***************************************************************************)
(* FromLua for LuaMessage.                                                 *)
(***************************************************************************)
RECURSIVE from_lua(_), HashMap_from_lua(_)

\* String::from_lua of a native string holding valid UTF-8: its text
String_from_lua(s) == [i \in 1..Len(s) |-> s[i]]

\* HashMap::from_lua that reads the array part only
HashMap_from_lua_ArrayPart(t) == {Ok(Table(NoEntries))}

\* HashMap::from_lua that decodes texts with String::from_lua
HashMap_from_lua_Plain(t) ==
    LET dec    == [k \in DOMAIN t |->
                      IF t[k].tag = "String"
                      THEN {Ok(String(String_from_lua(t[k].s)))}
                      ELSE from_lua(t[k])]
        panics == UNION {{r \in dec[k] : r.kind # "Ok"} : k \in DOMAIN t}
    IN  IF panics # {}
        THEN panics
        ELSE {Ok(Table([k \in DOMAIN t |-> (CHOOSE r \in dec[k] : TRUE).val]))}

\* HashMap<String, LuaMessage>::from_lua: every pair of the native table, the
\* value decoded by LuaMessage::from_lua.  The pairs come in the table's own
\* order, so the decode ends in the panic of whichever failing entry is met
\* first: the result is the set of outcomes the order allows.
HashMap_from_lua(t) ==
    LET dec    == [k \in DOMAIN t |-> from_lua(t[k])]
        panics == UNION {{r \in dec[k] : r.kind # "Ok"} : k \in DOMAIN t}
    IN  IF panics # {}
        THEN panics
        ELSE {Ok(Table([k \in DOMAIN t |-> (CHOOSE r \in dec[k] : TRUE).val]))}

\* the Value::String arm
from_lua_string(x) ==
    IF is_match(String_from_lua(x))
    THEN Ok(ThreadYield(group1(String_from_lua(x))))
    ELSE Ok(String(String_from_lua(x)))

\* from_lua that hands an error value on as its text
from_lua_ErrorAsString(v) ==
    CASE v.tag = "String"  -> {from_lua_string(v.s)}
      [] v.tag = "Integer" -> {Ok(Integer(v.n))}
      [] v.tag = "Number"  -> {Ok(Number(v.x))}
      [] v.tag = "Boolean" -> {Ok(Boolean(v.b))}
      [] v.tag = "Nil"     -> {Ok(Nil)}
      [] v.tag = "Table"   -> HashMap_from_lua(v.t)
      [] v.tag = "Error"   -> {Ok(String(v.s))}
      [] OTHER             -> {Panic("not implemented", None)}

\* the set of outcomes of LuaMessage::from_lua(v, ctx); one outcome unless v
\* is a table with several failing entries
from_lua(v) ==
    CASE v.tag = "String"  -> {from_lua_string(v.s)}
      [] v.tag = "Integer" -> {Ok(Integer(v.n))}
      [] v.tag = "Number"  -> {Ok(Number(v.x))}
      [] v.tag = "Boolean" -> {Ok(Boolean(v.b))}
      [] v.tag = "Nil"     -> {Ok(Nil)}
      [] v.tag = "Table"   -> HashMap_from_lua(v.t)
      [] v.tag = "Error"   -> {Panic("Lua error", v)}
      [] OTHER             -> {Panic("not implemented", None)}

(***************************************************************************)
(* MessageResponse::handle.                                                *)
(***************************************************************************)
\* handle that sends whether or not it was given a channel
handle_IgnoresOption(self, txo, channel) == Append(channel, self)

\* what the reply channel holds after handle(self, _, tx)
handle(self, txo, channel) ==
    IF txo = "Some" THEN Append(channel, self) ELSE channel

(***************************************************************************)
(* The state machine.  A host holds one LuaMessage (msg) it built or       *)
(* decoded, may encode it into the runtime (native), decode what the       *)
(* runtime holds, or hand the message to handle as a reply.                *)
(***************************************************************************)
NoArg == [ty |-> "<none>", neg |-> FALSE, mag |-> Zero64]

Init ==
    /\ pc = "start"
    /\ op = "<none>"
    /\ arg = NoArg
    /\ msg = None
    /\ native = None
    /\ orig = None
    /\ failure = Ok(None)
    /\ tx = "<none>"
    /\ chan = <<>>

\* a From constructor returned m
Built(name, a, m) ==
    /\ pc' = "held"
    /\ op' = name
    /\ arg' = a
    /\ msg' = m
    /\ native' = None
    /\ orig' = None
    /\ UNCHANGED <<failure, tx, chan>>

\* LuaMessage::Nil, written by the host
NilLiteral ==
    /\ pc = "start"
    /\ Built("Nil", NoArg, Nil)

\* impl From<bool>
from_bool(s) == Boolean(s)

\* From<&str> that reads the sentinel as from_lua does
from_str_Parsed(s) == IF is_match(s) THEN ThreadYield(group1(s)) ELSE String(s)

\* impl From<&str>: s.to_string() copies the text
from_str(s) == String([i \in 1..Len(s) |-> s[i]])

\* impl From<String>
from_string(s) == String(s)

\* lua_message_convert_int!(i8, u8, i16, u16, i32, u32, i64); s is the bytes of the input
from_int(ty, s) == Integer(i64_from(ty, s))

\* impl From<usize>
from_usize(s) == Integer(usize_as_i64(s))

\* impl From<isize>
from_isize(s) == Integer(isize_as_i64(s))

\* lua_message_convert_float!(f32, f64)
from_float(ty, s) == Number(f64_from(ty, s))

\* impl From<HashMap<String, LuaMessage>>
from_hashmap(s) == Table(s)

FromBool ==
    /\ pc = "start"
    /\ \E s \in BOOLEAN : Built("From<bool>", NoArg, from_bool(s))

FromStr ==
    /\ pc = "start"
    /\ \E s \in Texts : Built("From<&str>", NoArg, from_str(s))

FromString ==
    /\ pc = "start"
    /\ \E s \in Texts : Built("From<String>", NoArg, from_string(s))

FromInt ==
    /\ pc = "start"
    /\ \E ty \in MacroIntTypes : \E s \in IntInputs(ty) :
          Built("From<int>", [ty |-> ty, neg |-> s.neg, mag |-> s.mag],
                from_int(ty, Repr(ty, s)))

FromUsize ==
    /\ pc = "start"
    /\ \E s \in IntInputs("usize") :
          Built("From<usize>", [ty |-> "usize", neg |-> s.neg, mag |-> s.mag],
                from_usize(Repr("usize", s)))

FromIsize ==
    /\ pc = "start"
    /\ \E s \in IntInputs("isize") :
          Built("From<isize>", [ty |-> "isize", neg |-> s.neg, mag |-> s.mag],
                from_isize(Repr("isize", s)))

FromFloat ==
    /\ pc = "start"
    /\ \E ty \in {"f32", "f64"} : \E s \in (IF ty = "f32" THEN F32s ELSE F64s) :
          Built("From<float>", NoArg, from_float(ty, s))

\* values the host puts next to the held message when it fills a map
Siblings == {Nil, String(SuspendedAbc)}

\* the maps the host builds: empty, or holding the message it holds
Maps ==
    IF pc = "start" THEN {NoEntries}
    ELSE {Bar :> msg} \cup {(Bar :> msg) @@ (SuspendedAbc :> v) : v \in Siblings}

FromHashMap ==
    /\ pc \in {"start", "held"}
    /\ native = None
    /\ Depth(msg) < MaxDepth
    /\ \E s \in Maps : Built("From<HashMap>", NoArg, from_hashmap(s))

(***************************************************************************)
(* Values a script hands to the host.                                      *)
(***************************************************************************)
Foo == <<"f", "o", "o">>

ScriptScalars ==
    {String(s) : s \in Texts}
      \cup {Integer(Pad(<<42>>, 0)), Number("42.5"), Boolean(TRUE), Nil,
            Error(Foo), Error(SuspendedAbc), Function}

ScriptSiblings == {String(SuspendedAbc), Error(Foo)}

\* a native table holds no nil: storing nil under a key stores nothing
lua_table(t) == Table([k \in {h \in DOMAIN t : t[h].tag # "Nil"} |-> t[k]])

ScriptValue ==
    /\ pc = "start"
    /\ \E v \in ScriptScalars \cup {Table(NoEntries)} :
          /\ native' = v
          /\ pc' = "native"
          /\ op' = "script"
          /\ UNCHANGED <<arg, msg, orig, failure, tx, chan>>

\* the script puts the value it has into a table
ScriptTable ==
    /\ pc = "native"
    /\ op = "script"
    /\ Depth(native) < MaxDepth
    /\ \E t \in {Bar :> native}
                  \cup {(Bar :> native) @@ (SuspendedAbc :> v) : v \in ScriptSiblings} :
          native' = lua_table(t)
    /\ UNCHANGED <<pc, op, arg, msg, orig, failure, tx, chan>>

\* msg.to_lua(ctx): self is moved into the call
ToLua ==
    /\ pc = "held"
    /\ orig = None
    /\ LET r == to_lua(msg)
       IN  /\ pc' = IF r.kind = "Ok" THEN "native" ELSE "panicked"
           /\ native' = IF r.kind = "Ok" THEN r.val ELSE None
           /\ failure' = r
    /\ op' = "to_lua"
    /\ orig' = msg
    /\ msg' = None
    /\ UNCHANGED <<arg, tx, chan>>

\* LuaMessage::from_lua(native, ctx)
FromLua ==
    /\ pc = "native"
    /\ \E r \in from_lua(native) :
          /\ pc' = IF r.kind = "Ok" THEN "held" ELSE "panicked"
          /\ msg' = IF r.kind = "Ok" THEN r.val ELSE None
          /\ failure' = r
    /\ op' = "from_lua"
    /\ UNCHANGED <<arg, native, orig, tx, chan>>

\* msg.handle(ctx, tx): the reply and the channel are moved into the call
Handle ==
    /\ pc = "held"
    /\ \E txo \in {"Some", "None"} :
          /\ tx' = txo
          /\ chan' = handle(msg, txo, chan)
    /\ pc' = "replied"
    /\ op' = "handle"
    /\ orig' = msg
    /\ msg' = None
    /\ native' = None
    /\ UNCHANGED <<arg, failure>>

Next ==
    \/ NilLiteral
    \/ FromBool
    \/ FromStr
    \/ FromString
    \/ FromInt
    \/ FromUsize
    \/ FromIsize
    \/ FromFloat
    \/ FromHashMap
    \/ ScriptValue
    \/ ScriptTable
    \/ ToLua
    \/ FromLua
    \/ Handle

Spec == Init /\ [][Next]_vars

(***************************************************************************)
(* Properties.                                                             *)
(***************************************************************************)
Scalars == {"String", "Integer", "Number", "Boolean", "Nil"}

\* the state after to_lua and then from_lua of orig, both returned
RoundTripDone == pc = "held" /\ op = "from_lua" /\ orig # None

\* the sentinel is the start of s
HasPrefix(s) == Len(s) >= Len(Sentinel) /\ SubSeq(s, 1, Len(Sentinel)) = Sentinel

RECURSIVE HasThreadYield(_), HasNil(_), HasSentinelText(_)

\* v is a ThreadYield or holds one at some depth
HasThreadYield(v) ==
    \/ v.tag = "ThreadYield"
    \/ v.tag = "Table" /\ \E k \in DOMAIN v.t : HasThreadYield(v.t[k])

\* v is Nil or holds a Nil entry at some depth
HasNil(v) ==
    \/ v.tag = "Nil"
    \/ v.tag = "Table" /\ \E k \in DOMAIN v.t : HasNil(v.t[k])

\* v is, or holds at some depth, a String in which the sentinel is followed
\* by a character other than a line feed
HasSentinelText(v) ==
    \/ v.tag = "String" /\ \E i \in 1..Len(v.s) :
          /\ i + Len(Sentinel) <= Len(v.s)
          /\ SubSeq(v.s, i, i + Len(Sentinel) - 1) = Sentinel
          /\ v.s[i + Len(Sentinel)] # "\n"
    \/ v.tag = "Table" /\ \E k \in DOMAIN v.t : HasSentinelText(v.t[k])

\* C1 as stated: to_lua then from_lua of a String, Integer, Number, Boolean or
\* Nil gives back the same variant with the same content, whatever the text
\* of a String.
C1_ScalarRoundTrip_AsStated ==
    (RoundTripDone /\ orig.tag \in Scalars) => msg = orig

\* C1 amended: to_lua then from_lua of an Integer, Number, Boolean or Nil, or
\* of a String whose text nowhere has the sentinel followed by a character
\* other than a line feed, gives back the same variant with the same content.
C1_ScalarRoundTrip ==
    (RoundTripDone /\ orig.tag \in Scalars /\ ~HasSentinelText(orig)) => msg = orig

C1_Witness ==
    /\ RoundTripDone
    /\ orig.tag = "String"
    /\ \E i \in 1..(Len(orig.s) - Len(Sentinel)) :
          SubSeq(orig.s, i + 1, i + Len(Sentinel)) = Sentinel
    /\ ~HasSentinelText(orig)
    /\ msg = orig

\* C2 as stated: to_lua then from_lua of a Table gives a Table with the same
\* keys and, recursively, equal values, Nil entries and any String included.
C2_TableRoundTrip_AsStated ==
    (RoundTripDone /\ orig.tag = "Table") => msg = orig

\* C2 amended: to_lua then from_lua of a Table that at no depth holds a Nil
\* entry or a String whose text has the sentinel followed by a character
\* other than a line feed gives a Table with the same keys and, recursively,
\* equal values.
C2_TableRoundTrip ==
    (RoundTripDone /\ orig.tag = "Table" /\ ~HasNil(orig) /\ ~HasSentinelText(orig))
        => msg = orig

C2_Witness ==
    /\ RoundTripDone
    /\ orig.tag = "Table"
    /\ Depth(orig) = MaxDepth
    /\ \E k \in DOMAIN orig.t : orig.t[k].tag = "Table" /\ DOMAIN orig.t[k].t # {}
    /\ ~HasNil(orig)
    /\ ~HasSentinelText(orig)
    /\ msg = orig

\* C3: from_lua of a native string s is ThreadYield(token) exactly when s is
\* the sentinel followed by a non-empty suffix, token being that whole
\* suffix; every other s comes back as String(s).
C3_StringDecodingRule ==
    (op = "from_lua" /\ native.tag = "String") =>
        IF HasPrefix(native.s) /\ Len(native.s) > Len(Sentinel)
        THEN msg = ThreadYield(SubSeq(native.s, Len(Sentinel) + 1, Len(native.s)))
        ELSE msg = String(native.s)

\* C4: to_lua of a ThreadYield ends in a failure and returns no native value.
C4_EncodeRejectsThreadYield ==
    (op = "to_lua" /\ orig.tag = "ThreadYield") =>
        /\ pc = "panicked"
        /\ failure.kind = "Panic"
        /\ native = None

C4_Witness ==
    /\ op = "to_lua"
    /\ orig.tag = "ThreadYield"
    /\ Len(orig.s) > 1
    /\ pc = "panicked"

\* C5: from_lua of a native error value fails, the failure carries the
\* error with its message, and no LuaMessage is returned.
C5_DecodeRejectsError ==
    (op = "from_lua" /\ native.tag = "Error") =>
        /\ pc = "panicked"
        /\ failure.kind = "Panic"
        /\ failure.val.tag = "Error"
        /\ failure.val.s = native.s
        /\ msg = None

C5_Witness ==
    /\ op = "from_lua"
    /\ native = Error(Foo)
    /\ pc = "panicked"
    /\ failure.val.s = Foo

\* C6: handle sends the reply, unchanged, exactly once when it is given a
\* channel and sends nothing when it is given none; it completes either way.
C6_ReplyOneShot ==
    /\ Len(chan) <= 1
    /\ pc = "replied" => chan = IF tx = "Some" THEN <<orig>> ELSE <<>>
    /\ pc # "replied" => chan = <<>>

C6_Witness ==
    /\ pc = "replied"
    /\ tx = "Some"
    /\ orig.tag = "Table"
    /\ chan = <<orig>>

FromOps ==
    {"From<bool>", "From<&str>", "From<String>", "From<int>", "From<usize>",
     "From<isize>", "From<float>", "From<HashMap>"}

\* C7: no From constructor returns a ThreadYield; a ThreadYield the host
\* holds was returned by from_lua for a native string the regex matches.
C7_ThreadYieldOnlyDecoded ==
    /\ op \in FromOps => pc = "held" /\ msg.tag \notin {"ThreadYield", "None"}
    /\ msg.tag = "ThreadYield" =>
          op = "from_lua" /\ native.tag = "String" /\ HasSentinelText(native)

C7_Witness ==
    /\ op = "From<&str>"
    /\ HasPrefix(msg.s)
    /\ Len(msg.s) > Len(Sentinel)
    /\ msg.tag = "String"

\* C8: From of an integer n of any width is Integer(m) with m = n, but for
\* a usize above 2^63 - 1, where m = n - 2^64.
C8_IntegerWidening ==
    op \in {"From<int>", "From<usize>", "From<isize>"} =>
        /\ msg.tag = "Integer"
        /\ SignedValue(msg.n) =
              IF arg.ty = "usize" /\ TopBit(arg.mag)
              THEN [neg |-> TRUE, mag |-> Negate(arg.mag)]
              ELSE [neg |-> arg.neg, mag |-> arg.mag]

C8_Witness ==
    /\ op = "From<usize>"
    /\ arg.mag = Ones(8)
    /\ SignedValue(msg.n) = [neg |-> TRUE, mag |-> Pad(<<1>>, 0)]

\* v, decoded on its own, fails
FailsAlone(v) == \A r \in from_lua(v) : r.kind # "Ok"

\* C9: from_lua of a native table gives a Table holding, under each key, what
\* from_lua returns for that entry on its own: a nested sentinel string is a
\* nested ThreadYield, a nested table a nested Table, and a nested error
\* value aborts the whole decode.
C9_DecodeRecurses ==
    (op = "from_lua" /\ native.tag = "Table") =>
        IF \E k \in DOMAIN native.t : FailsAlone(native.t[k])
        THEN /\ pc = "panicked"
             /\ msg = None
             /\ \E k \in DOMAIN native.t : failure \in from_lua(native.t[k])
        ELSE /\ pc = "held"
             /\ msg.tag = "Table"
             /\ DOMAIN msg.t = DOMAIN native.t
             /\ \A k \in DOMAIN native.t :
                   /\ Ok(msg.t[k]) \in from_lua(native.t[k])
                   /\ native.t[k].tag = "Table" => msg.t[k].tag = "Table"
                   /\ native.t[k].tag = "Error" => FALSE
                   /\ (native.t[k].tag = "String" /\ HasPrefix(native.t[k].s)
                          /\ Len(native.t[k].s) > Len(Sentinel)
                          /\ "\n" \notin {native.t[k].s[i] : i \in 1..Len(native.t[k].s)})
                        => msg.t[k] = ThreadYield(SubSeq(native.t[k].s, Len(Sentinel) + 1,
                                                         Len(native.t[k].s)))

C9_Witness ==
    /\ op = "from_lua"
    /\ pc = "held"
    /\ native.tag = "Table"
    /\ \E k \in DOMAIN native.t :
          /\ native.t[k].tag = "Table"
          /\ \E h \in DOMAIN native.t[k].t : msg.t[k].t[h].tag = "ThreadYield"

\* C10: to_lua of a value holding a ThreadYield at any depth fails and
\* returns no native value; to_lua of any other value returns a native
\* value of the kind of its variant.
C10_NoThreadYieldEncoded ==
    op = "to_lua" =>
        IF HasThreadYield(orig)
        THEN pc = "panicked" /\ failure.kind = "Panic" /\ native = None
        ELSE pc = "native" /\ native.tag = orig.tag

C10_Witness ==
    /\ op = "to_lua"
    /\ pc = "panicked"
    /\ orig.tag = "Table"
    /\ \E k \in DOMAIN orig.t :
          /\ orig.t[k].tag = "Table"
          /\ \E h \in DOMAIN orig.t[k].t : orig.t[k].t[h].tag = "ThreadYield"

====
